---- MODULE Spec2Model ----
(***************************************************************************)
(* The record update handler of iznotek/dns (records/update.go) as a state *)
(* machine: one request walks through the request checks, the token        *)
(* verification, the role evaluation, the body decoding, the load of the   *)
(* existing record, the field validation and merge, and the store.         *)
(* The user update handler (package users) follows it: request checks,     *)
(* token verification, target username, body decoding and validation,      *)
(* load, merge and write of the user.                                      *)
(*                                                                         *)
(* The packages db and util are called by the handler but are not part of  *)
(* the sources at hand; their operations are modelled from the design      *)
(* document and say so where they are defined.                             *)
(***************************************************************************)
EXTENDS Integers, Sequences, FiniteSets, TLC

VARIABLES
    store,       \* the record bucket: <<name, type>> -> stored record
    roles,       \* the role bucket: role name -> [description, allow, deny]
    users,       \* the user bucket: username -> [name, password, role]
    pc,          \* per request: the handler's position
    req,         \* per request: the HTTP request as received
    user,        \* per request: the user of the token (update.go:45)
    recordName,  \* per request: the local recordName (update.go:51)
    body,        \* per request: the decoded JSON body (update.go:63)
    record,      \* per request: the local record (update.go:76)
    valid,       \* per request: the validity map (update.go:83)
    resp,        \* per request: the responses written, in order
    calls,       \* per request: the db and util calls made, in order
    username,    \* per user update request: the local username (part_000:42)
    u,           \* per user update request: the local u (part_000:66)
    role,        \* per role update request: the local role (part_001:64)
    db,          \* the package-level db.Get.Db, db.Set.Db, db.Delete.Db (update.go:16-18)
    other        \* the record bucket of a second database

vars == <<store, roles, users, pc, req, user, recordName, body, record, valid, resp, calls,
          username, u, role, db, other>>

dbVars == <<store, other, roles, users>>

\* The locals of the user update handler alone.
userUpdateVars == <<username, u>>

\* The requests that may be in progress at once.
Reqs == {1, 2}

\* The number of fields of a request body that deviate from its base body.
MaxOverrides == 1

(***************************************************************************)
(* Strings the program takes apart are sequences of their dot-separated    *)
(* labels: "www.example.com" is <<"www","example","com">>, the empty       *)
(* string is <<"">>, and s + "." is Append(s, "").                         *)
(***************************************************************************)
EmptyString == <<"">>

AppendDot(s) == Append(s, "")

\* strings.ToLower on one label (update.go:51).
ToLowerLabel(l) ==
    CASE l = "WWW" -> "www"
      [] l = "Example" -> "example"
      [] l = "Secure" -> "secure"
      [] OTHER -> l

\* strings.ToLower (update.go:51).
ToLower(s) == [i \in 1..Len(s) |-> ToLowerLabel(s[i])]

\* strings.ToUpper leaving the letters as they are.
ToUpperKeepsCase(tag) == tag

\* strings.ToUpper on the type tag (update.go:73).
ToUpper(tag) ==
    CASE tag = "a" -> "A"
      [] tag = "mx" -> "MX"
      [] tag = "Mx" -> "MX"
      [] tag = "caa" -> "CAA"
      [] tag = "loc" -> "LOC"
      [] tag = "uri" -> "URI"
      [] tag = "bogus" -> "BOGUS"
      [] OTHER -> tag

(***************************************************************************)
(* JSON values and record field values, all of one shape.                  *)
(***************************************************************************)
JStr(s) == [k |-> "string", s |-> s, n |-> 0, a |-> <<>>]
JNum(n) == [k |-> "number", s |-> "", n |-> n, a |-> <<>>]
JArr(a) == [k |-> "array", s |-> "", n |-> 0, a |-> a]
Absent == [k |-> "absent", s |-> "", n |-> 0, a |-> <<>>]

Pow2(w) == CASE w = 8 -> 256 [] w = 16 -> 65536

\* Whether n is a value of the unsigned type of w bits; 2^32 is written as
\* 65536 * 65536 by way of a division.
FitsUint(w, n) == n >= 0 /\ (IF w = 32 THEN n \div 65536 < 65536 ELSE n < Pow2(w))

\* uintW(n): n modulo 2^w (a number of the model is below 2^32).
Uint(w, n) == IF w = 32 THEN n ELSE n % Pow2(w)

(***************************************************************************)
(* The RR types of the type switch and, per type, what its case does.      *)
(***************************************************************************)
Types == {"A", "AAAA", "CNAME", "MX", "LOC", "SRV", "SPF", "TXT", "NS", "CAA",
          "PTR", "CERT", "DNSKEY", "DS", "NAPTR", "SMIMEA", "SSHFP", "TLSA", "URI"}

\* Opt declaring the field required.
OptRequired(t) == [type |-> t, required |-> "true"]

Opt(t) == [type |-> t, required |-> "false"]
\* Req8 declaring the field optional.
Req8Optional == [type |-> "uint8", required |-> "false"]

Req8 == [type |-> "uint8", required |-> "true"]
\* ReqRange without the bounds.
ReqRangeUnbounded(lo, hi) == [type |-> "uint8", required |-> "true"]

ReqRange(lo, hi) == [type |-> "uint8", required |-> "true", min |-> lo, max |-> hi]

\* The field list given to util.ValidateBody, in order.
SchemaFields(t) ==
    CASE t = "A" -> <<"host">>
      [] t = "AAAA" -> <<"host">>
      [] t = "CNAME" -> <<"target">>
      [] t = "MX" -> <<"host", "priority">>
      [] t = "LOC" -> <<"version", "size", "horizontal-precision", "vertical-precision",
                        "altitude", "lat-degrees", "lat-minutes", "lat-seconds",
                        "lat-direction", "long-degrees", "long-minutes", "long-seconds",
                        "long-direction">>
      [] t = "SRV" -> <<"priority", "weight", "port", "target">>
      [] t = "SPF" -> <<"text">>
      [] t = "TXT" -> <<"text">>
      [] t = "NS" -> <<"nameserver">>
      [] t = "CAA" -> <<"tag", "content">>
      [] t = "PTR" -> <<"domain">>
      [] t = "CERT" -> <<"c-type", "key-tag", "algorithm", "certificate">>
      [] t = "DNSKEY" -> <<"flags", "protocol", "algorithm", "public-key">>
      [] t = "DS" -> <<"key-tag", "algorithm", "digest-type", "digest">>
      [] t = "NAPTR" -> <<"order", "preference", "flags", "service", "regexp", "replacement">>
      [] t = "SMIMEA" -> <<"usage", "selector", "matching-type", "certificate">>
      [] t = "SSHFP" -> <<"algorithm", "s-type", "fingerprint">>
      [] t = "TLSA" -> <<"usage", "selector", "matching-type", "certificate">>
      [] t = "URI" -> <<"priority", "weight", "target">>

\* The schema given to util.ValidateBody: field -> attributes. An attribute
\* the source does not give (or misspells) is absent here too.
Schema(t) ==
    CASE t = "A" -> [host |-> Opt("ipv4")]
      [] t = "AAAA" -> [host |-> Opt("ipv6")]
      [] t = "CNAME" -> [target |-> Opt("string")]
      [] t = "MX" -> [host |-> Opt("string"), priority |-> Opt("uint16")]
      [] t = "LOC" ->
            ("version" :> Req8) @@ ("size" :> Req8)
            @@ ("horizontal-precision" :> Req8) @@ ("vertical-precision" :> Req8)
            @@ ("altitude" :> [type |-> "uint32", required |-> "true"])
            @@ ("lat-degrees" :> ReqRange(0, 90)) @@ ("lat-minutes" :> ReqRange(0, 60))
            @@ ("lat-seconds" :> ReqRange(0, 60))
            @@ ("lat-direction" :> [type |-> "string", required |-> "true", oneOf |-> {"N", "S"}])
            @@ ("long-degrees" :> ReqRange(0, 180)) @@ ("long-minutes" :> ReqRange(0, 60))
            @@ ("long-seconds" :> ReqRange(0, 60))
            @@ ("long-direction" :> [type |-> "string", required |-> "true", oneOf |-> {"E", "W"}])
      [] t = "SRV" -> [priority |-> Opt("uint16"), weight |-> Opt("uint16"),
                       port |-> Opt("uint16"), target |-> Opt("string")]
      [] t = "SPF" -> [text |-> Opt("stringarray")]
      [] t = "TXT" -> [text |-> Opt("stringarray")]
      [] t = "NS" -> [nameserver |-> Opt("string")]
      [] t = "CAA" -> [tag |-> Opt("string"), content |-> Opt("string")]
      [] t = "PTR" -> [domain |-> Opt("string")]
      [] t = "CERT" ->
            ("c-type" :> [type |-> "uint16", requried |-> "false"])
            @@ ("key-tag" :> Opt("uint16")) @@ ("algorithm" :> Opt("uint8"))
            @@ ("certificate" :> Opt("string"))
      [] t = "DNSKEY" ->
            ("flags" :> Opt("uint16")) @@ ("protocol" :> Opt("uint8"))
            @@ ("algorithm" :> Opt("uint8")) @@ ("public-key" :> Opt("string"))
      [] t = "DS" ->
            ("key-tag" :> Opt("uint16")) @@ ("algorithm" :> Opt("uint8"))
            @@ ("digest-type" :> Opt("uint8")) @@ ("digest" :> Opt("string"))
      [] t = "NAPTR" -> [order |-> Opt("uint16"), preference |-> Opt("uint16"),
                         flags |-> Opt("string"), service |-> Opt("string"),
                         regexp |-> Opt("string"), replacement |-> Opt("string")]
      [] t = "SMIMEA" ->
            ("usage" :> Opt("uint8")) @@ ("selector" :> Opt("uint8"))
            @@ ("matching-type" :> Opt("uint8")) @@ ("certificate" :> Opt("string"))
      [] t = "SSHFP" ->
            ("algorithm" :> Opt("uint8")) @@ ("s-type" :> Opt("uint8"))
            @@ ("fingerprint" :> Opt("string"))
      [] t = "TLSA" ->
            ("usage" :> Opt("uint8")) @@ ("selector" :> Opt("uint8"))
            @@ ("matching-type" :> Opt("uint8")) @@ ("certificate" :> Opt("string"))
      [] t = "URI" -> [priority |-> Opt("uint16"), weight |-> Opt("uint16"),
                       target |-> [type |-> "string", requried |-> "false"]]

\* The assignments "if valid[f] { record.X = ... }" of a case, in order:
\* <<body field, record field>>.
Assignments(t) ==
    CASE t = "A" -> << <<"host", "Address">> >>
      [] t = "AAAA" -> << <<"host", "Address">> >>
      [] t = "CNAME" -> << <<"target", "Target">> >>
      [] t = "MX" -> << <<"host", "Host">>, <<"priority", "Priority">> >>
      [] t = "LOC" -> << <<"version", "Version">>, <<"size", "Size">>,
                         <<"horizontal-precision", "HorizontalPrecision">>,
                         <<"vertical-precision", "VerticalPrecision">>,
                         <<"altitude", "Altitude">>,
                         <<"lat-degrees", "LatDegrees">>, <<"lat-minutes", "LatMinutes">>,
                         <<"lat-seconds", "LatSeconds">>, <<"lat-direction", "LatDirection">>,
                         <<"long-degrees", "LongDegrees">>, <<"long-minutes", "LongMinutes">>,
                         <<"long-seconds", "LongSeconds">>, <<"long-direction", "LongDirection">> >>
      [] t = "SRV" -> << <<"priority", "Priority">>, <<"weight", "Weight">>,
                         <<"port", "Port">>, <<"target", "Target">> >>
      [] t = "SPF" -> << <<"text", "Text">> >>
      [] t = "TXT" -> << <<"text", "Text">> >>
      [] t = "NS" -> << <<"nameserver", "Nameserver">> >>
      [] t = "CAA" -> << <<"tag", "Tag">>, <<"content", "Tag">> >>
      [] t = "PTR" -> << <<"domain", "Domain">> >>
      [] t = "CERT" -> << <<"c-type", "Type">>, <<"key-tag", "KeyTag">>,
                          <<"algorithm", "Algorithm">>, <<"certificate", "Certificate">> >>
      [] t = "DNSKEY" -> << <<"flags", "Flags">>, <<"protocol", "Protocol">>,
                            <<"algorithm", "Algorithm">>, <<"public-key", "PublicKey">> >>
      [] t = "DS" -> << <<"key-tag", "KeyTag">>, <<"algorithm", "Algorithm">>,
                        <<"digest-type", "DigestType">>, <<"digest", "Digest">> >>
      [] t = "NAPTR" -> << <<"order", "Order">>, <<"preference", "Preference">>,
                           <<"flags", "Flags">>, <<"service", "Service">>,
                           <<"regexp", "Regexp">>, <<"replacement", "Replacement">> >>
      [] t = "SMIMEA" -> << <<"usage", "Usage">>, <<"selector", "Selector">>,
                            <<"matching-type", "MatchingType">>, <<"certificate", "Certificate">> >>
      [] t = "SSHFP" -> << <<"algorithm", "Algorithm">>, <<"s-type", "Type">>,
                           <<"fingerprint", "Fingerprint">> >>
      [] t = "TLSA" -> << <<"usage", "Usage">>, <<"selector", "Selector">>,
                          <<"matching-type", "MatchingType">>, <<"certificate", "Certificate">> >>
      [] t = "URI" -> << <<"priority", "Priority">>, <<"weight", "Weight">>,
                         <<"target", "Target">> >>

\* The record fields given to db.Set.<type>, in the order of its arguments.
SetArgs(t) ==
    CASE t = "A" -> <<"Address">>
      [] t = "AAAA" -> <<"Address">>
      [] t = "CNAME" -> <<"Target">>
      [] t = "MX" -> <<"Priority", "Host">>
      [] t = "LOC" -> <<"Version", "Size", "HorizontalPrecision", "VerticalPrecision",
                        "Altitude", "LatDegrees", "LatMinutes", "LatSeconds", "LatDirection",
                        "LongDegrees", "LongMinutes", "LongSeconds", "LongDirection">>
      [] t = "SRV" -> <<"Priority", "Weight", "Port", "Target">>
      [] t = "SPF" -> <<"Text">>
      [] t = "TXT" -> <<"Text">>
      [] t = "NS" -> <<"Nameserver">>
      [] t = "CAA" -> <<"Tag", "Content">>
      [] t = "PTR" -> <<"Domain">>
      [] t = "CERT" -> <<"Type", "KeyTag", "Algorithm", "Certificate">>
      [] t = "DNSKEY" -> <<"Flags", "Protocol", "Algorithm", "PublicKey">>
      [] t = "DS" -> <<"KeyTag", "Algorithm", "DigestType", "Digest">>
      [] t = "NAPTR" -> <<"Order", "Preference", "Flags", "Service", "Regexp", "Replacement">>
      [] t = "SMIMEA" -> <<"Usage", "Selector", "MatchingType", "Certificate">>
      [] t = "SSHFP" -> <<"Algorithm", "Type", "Fingerprint">>
      [] t = "TLSA" -> <<"Usage", "Selector", "MatchingType", "Certificate">>
      [] t = "URI" -> <<"Priority", "Weight", "Target">>

\* Whether the case returns after answering a failed field validation
\* ("if err != "" { Error(...); return }"): the cases A to NS do, the cases
\* CAA to URI answer and go on.
ReturnsOnInvalid(t) ==
    t \in {"A", "AAAA", "CNAME", "MX", "LOC", "SRV", "SPF", "TXT", "NS"}

SeqToSet(s) == {s[i] : i \in 1..Len(s)}

FieldSet(t) == SeqToSet(SchemaFields(t))

RecordFields(t) == SeqToSet(SetArgs(t))

(***************************************************************************)
(* Library conversions the handler applies to body values.                 *)
(***************************************************************************)
\* net.ParseIP followed by IP.String: the canonical text of an address
\* literal, "" for a text that is no address.
CanonicalIP(s) ==
    CASE s \in {"10.0.0.5", "10.0.0.6", "192.0.2.1", "::1", "2001:db8::1", "2001:db8::2"} -> s
      [] s = "0:0:0:0:0:0:0:1" -> "::1"
      [] s = "2001:DB8::2" -> "2001:db8::2"
      [] OTHER -> ""

IsIPv4(s) == CanonicalIP(s) \in {"10.0.0.5", "10.0.0.6", "192.0.2.1"}

IsIPv6(s) == CanonicalIP(s) \in {"::1", "2001:db8::1", "2001:db8::2"}

\* A net.IP value: the address, whatever text it was parsed from.
JIP(s) == [k |-> "ip", s |-> s, n |-> 0, a |-> <<>>]

\* net.ParseIP(body["host"].(string)) (update.go:91, 117).
ParseIP(v) == JIP(CanonicalIP(v.s))

\* record.Address.String() (update.go:95, 121).
IPString(ip) == JStr(IF ip.s = "" THEN "<nil>" ELSE ip.s)

RECURSIVE JoinStrings(_)
JoinStrings(a) ==
    IF a = <<>> THEN ""
    ELSE IF Len(a) = 1 THEN a[1]
    ELSE a[1] \o " " \o JoinStrings(Tail(a))

\* util.ConvertArrayToString (update.go:314, 341): the list joined into the
\* one string that is stored.
ConvertArrayToString(v) == JStr(JoinStrings(v.a))

\* The Go conversion applied to a body value before it is assigned:
\* uint8(x.(float64)), uint16(...), uint32(...), x.(string), net.ParseIP,
\* util.ConvertArrayToString.
Convert(type, v) ==
    CASE type = "uint8" -> JNum(Uint(8, v.n))
      [] type = "uint16" -> JNum(Uint(16, v.n))
      [] type = "uint32" -> JNum(Uint(32, v.n))
      [] type = "ipv4" -> ParseIP(v)
      [] type = "ipv6" -> ParseIP(v)
      [] type = "stringarray" -> ConvertArrayToString(v)
      [] OTHER -> JStr(v.s)

(***************************************************************************)
(* util.ValidateBody, from the design document (Field Validator).          *)
(***************************************************************************)
Attr(e, key) == IF key \in DOMAIN e THEN e[key] ELSE ""

UintWidth(type) == CASE type = "uint8" -> 8 [] type = "uint16" -> 16 [] type = "uint32" -> 32

\* "" when the field passes, else what is wrong with it.
FieldError(b, f, e) ==
    IF f \notin DOMAIN b
    THEN IF Attr(e, "required") = "true" THEN "is required" ELSE ""
    ELSE LET v == b[f]
             ty == e["type"]
         IN  IF ty \in {"uint8", "uint16", "uint32"}
             THEN IF v.k # "number" THEN "must be of type " \o ty
                  ELSE IF ~FitsUint(UintWidth(ty), v.n) THEN "must be of type " \o ty
                  ELSE IF "min" \in DOMAIN e /\ v.n < e["min"] THEN "is below its minimum"
                  ELSE IF "max" \in DOMAIN e /\ v.n > e["max"] THEN "is above its maximum"
                  ELSE ""
             ELSE IF ty = "stringarray"
             THEN IF v.k # "array" THEN "must be of type stringarray" ELSE ""
             ELSE IF v.k # "string" THEN "must be of type " \o ty
             ELSE IF ty = "ipv4" /\ ~IsIPv4(v.s) THEN "must be of type ipv4"
             ELSE IF ty = "ipv6" /\ ~IsIPv6(v.s) THEN "must be of type ipv6"
             ELSE IF "oneOf" \in DOMAIN e /\ v.s \notin e["oneOf"] THEN "must be one of its values"
             ELSE ""

\* validate(schema, providedFields) -> (errorMessage, validityMap): the first
\* field in error ends the validation with its message and no validity map;
\* without an error, a field is valid when it was provided.
ValidateBody(b, fields, schema) ==
    LET bad == {i \in 1..Len(fields) : FieldError(b, fields[i], schema[fields[i]]) # ""}
        first == CHOOSE i \in bad : \A j \in bad : i <= j
    IN  IF bad = {}
        THEN [err |-> "", valid |-> [f \in SeqToSet(fields) |-> f \in DOMAIN b]]
        ELSE [err |-> "field '" \o fields[first] \o "' "
                        \o FieldError(b, fields[first], schema[fields[first]]),
              valid |-> [f \in SeqToSet(fields) |-> FALSE]]

(***************************************************************************)
(* db.EvaluateRole, from the design document (Policy Evaluator). A pattern *)
(* is matched label by label; the label "*" stands for one or more labels, *)
(* which is any text; the empty pattern matches nothing.                   *)
(***************************************************************************)
RECURSIVE Glob(_, _)
Glob(p, s) ==
    IF p = <<>> THEN s = <<>>
    ELSE IF Head(p) = "*"
         THEN \E n \in 1..Len(s) : Glob(Tail(p), SubSeq(s, n + 1, Len(s)))
         ELSE s # <<>> /\ Head(s) = Head(p) /\ Glob(Tail(p), Tail(s))

Matches(pattern, name) == pattern # EmptyString /\ Glob(pattern, name)

\* evaluate(role, candidateName) -> allowed: deny first, then allow; an
\* error when the role is not in the role bucket.
EvaluateRole(roleName, name, rs) ==
    IF roleName \notin DOMAIN rs
    THEN [err |-> "role does not exist", allowed |-> FALSE]
    ELSE IF Matches(rs[roleName].deny, name)
    THEN [err |-> "", allowed |-> FALSE]
    ELSE [err |-> "", allowed |-> Matches(rs[roleName].allow, name)]

(***************************************************************************)
(* db.TokenFromString and db.UserFromToken (external collaborators).       *)
(***************************************************************************)
NoUser == [username |-> "", name |-> "", role |-> ""]

\* db.TokenFromString: the username a token was issued to, "" for a string
\* that is no valid token.
TokenFromString(header) ==
    CASE header = "token-alice" -> "alice"
      [] header = "token-bob" -> "bob"
      [] header = "token-carol" -> "carol"
      [] header = "token-dave" -> "dave"
      [] header = "token-erin" -> "erin"
      [] header = "token-zoe" -> "zoe"
      [] OTHER -> ""

\* db.UserFromToken: the user of the token, NoUser (an error) when the user
\* bucket does not hold it.
UserFromToken(token, us) ==
    IF token \in DOMAIN us
    THEN [username |-> token, name |-> us[token].name, role |-> us[token].role]
    ELSE NoUser

(***************************************************************************)
(* The record codec db.Get.<type> / db.Set.<type> over the record bucket,  *)
(* from the design document (RR Codec). The bucket is keyed by the fully   *)
(* qualified name and the type: db.Get is given the qualified name by the  *)
(* handler, db.Set qualifies the name it is given.                         *)
(***************************************************************************)
NoRecord == [exists |-> FALSE]

Fqdn(name) == IF name[Len(name)] = "" THEN name ELSE AppendDot(name)

IsAddress(t, f) == t \in {"A", "AAAA"} /\ f = "Address"

\* load(name) -> existingRecordOrNotFound
DbGet(st, t, name) ==
    IF <<name, t>> \in DOMAIN st
    THEN [exists |-> TRUE,
          fields |-> [f \in RecordFields(t) |->
                        IF IsAddress(t, f) THEN ParseIP(st[<<name, t>>][f])
                        ELSE st[<<name, t>>][f]]]
    ELSE NoRecord

\* util.RecordDoesNotExist
RecordDoesNotExist(rec) == ~rec.exists

\* store(name, record): the arguments of db.Set.<type> become the stored
\* record of (name, type).
DbSet(st, t, name, args) ==
    LET key == <<Fqdn(name), t>>
    IN  [k \in DOMAIN st \cup {key} |-> IF k = key THEN args ELSE st[k]]

\* The record bucket of the database a handle stands for: "db1" is the
\* database of store, "db2" the one of other.
Bucket(h) == IF h = "db2" THEN other ELSE store

\* db.Set.<type> through the handle h: the write goes to h's bucket.
SetIn(h, t, name, args) ==
    IF h = "db2"
    THEN other' = DbSet(other, t, name, args) /\ store' = store
    ELSE store' = DbSet(store, t, name, args) /\ other' = other

(***************************************************************************)
(* The initial buckets and the requests the handler is given.              *)
(***************************************************************************)
Www == <<"www", "example", "com">>
Secure == <<"secure", "example", "com">>
Mail == <<"mail", "example", "org">>

\* The type of the body field a record field is assigned from (string for a
\* record field no assignment writes).
StoredType(t, rf) ==
    LET idx == {i \in 1..Len(Assignments(t)) : Assignments(t)[i][2] = rf}
    IN  IF idx = {} THEN "string"
        ELSE Schema(t)[Assignments(t)[CHOOSE i \in idx : \A j \in idx : i <= j][1]]["type"]

\* A stored record of type t before any request; v tells two contents apart.
InitialRecord(t, v) ==
    [rf \in RecordFields(t) |->
        LET ty == StoredType(t, rf)
        IN  CASE ty \in {"uint8", "uint16", "uint32"} -> JNum(6 + v)
              [] ty = "ipv4" -> JStr(IF v = 1 THEN "192.0.2.1" ELSE "10.0.0.6")
              [] ty = "ipv6" -> JStr(IF v = 1 THEN "2001:db8::1" ELSE "::1")
              [] ty = "stringarray" -> JStr(IF v = 1 THEN "old text" ELSE "older text")
              [] rf = "LatDirection" -> JStr(IF v = 1 THEN "N" ELSE "S")
              [] rf = "LongDirection" -> JStr(IF v = 1 THEN "E" ELSE "W")
              [] OTHER -> JStr((IF v = 1 THEN "old " ELSE "older ") \o rf)]

\* The record bucket holding the given types at www.example.com. and at
\* secure.example.com.
InitialStore(ts, v) ==
    [key \in {AppendDot(Www), AppendDot(Secure)} \X ts |-> InitialRecord(key[2], v)]

\* The record buckets before any request: one with a record of every type,
\* one with records of four types.
InitialStores == {InitialStore(Types, 1), InitialStore({"A", "MX", "CAA", "LOC"}, 2)}

\* db.GetRole's answer for a role that does not exist (nil).
NoRole == [name |-> ""]

\* The record bucket of the second database before any request.
OtherStore == InitialStore({"A", "MX"}, 2)

InitialRoles ==
    [admin |-> [description |-> "administrators", allow |-> <<"*">>, deny |-> EmptyString],
     ops |-> [description |-> "operators", allow |-> <<"*", "example", "com">>,
              deny |-> Secure],
     guest |-> [description |-> "guests", allow |-> EmptyString, deny |-> EmptyString],
     locked |-> [description |-> "locked out", allow |-> <<"*">>, deny |-> <<"*">>]]

InitialUsers ==
    [alice |-> [name |-> "Alice", password |-> "hash of a", role |-> "admin"],
     bob |-> [name |-> "Bob", password |-> "hash of b", role |-> "ops"],
     carol |-> [name |-> "Carol", password |-> "hash of c", role |-> "guest"],
     dave |-> [name |-> "Dave", password |-> "hash of d", role |-> "ghost"],
     erin |-> [name |-> "Erin", password |-> "hash of e", role |-> "locked"]]

Paths == {EmptyString, Www, <<"WWW", "Example", "com">>, AppendDot(Www), Secure, Mail}

Authorizations == {"", "garbage", "token-alice", "token-bob", "token-carol",
                   "token-dave", "token-erin", "token-zoe"}

\* The tags a request may spell a type with.
Spellings(t) ==
    CASE t = "A" -> {"A", "a"}
      [] t = "MX" -> {"MX", "mx", "Mx"}
      [] t = "CAA" -> {"CAA", "caa"}
      [] t = "LOC" -> {"LOC", "loc"}
      [] t = "URI" -> {"URI", "uri"}
      [] t = "BOGUS" -> {"BOGUS", "bogus"}
      [] OTHER -> {t}

UintMax(e) ==
    IF "max" \in DOMAIN e THEN e["max"]
    ELSE IF e["type"] = "uint32" THEN 2147483647
    ELSE Pow2(UintWidth(e["type"])) - 1

\* The values a request may give field f of type t: valid ones first among
\* them, and ones of the wrong type, out of range or outside the field's set.
Samples(t, f) ==
    LET e == Schema(t)[f]
        ty == e["type"]
    IN  CASE ty \in {"uint8", "uint16"} /\ "min" \in DOMAIN e ->
                {JNum(1), JNum(e["min"]), JNum(e["min"] - 1), JNum(UintMax(e)),
                 JNum(UintMax(e) + 1), JStr("1")}
          [] ty \in {"uint8", "uint16"} ->
                {JNum(1), JNum(UintMax(e)), JNum(UintMax(e) + 1), JStr("1")}
          [] ty = "uint32" -> {JNum(1), JNum(UintMax(e)), JNum(-1), JStr("1")}
          [] ty = "ipv4" -> {JStr("10.0.0.5"), JStr("10.0.0.6"), JStr("::1"), JNum(7)}
          [] ty = "ipv6" -> {JStr("::1"), JStr("0:0:0:0:0:0:0:1"), JStr("2001:DB8::2"),
                             JStr("not an address")}
          [] ty = "stringarray" -> {JArr(<<"v=spf1", "-all">>), JArr(<<"hello">>), JStr("hello")}
          [] "oneOf" \in DOMAIN e -> {JStr(o) : o \in e["oneOf"]} \cup {JStr("X")}
          [] OTHER -> {JStr("new " \o f), JStr("other"), JNum(7)}

\* The value of field f in the body that supplies every field.
GoodValue(t, f) ==
    LET e == Schema(t)[f]
        ty == e["type"]
    IN  CASE ty \in {"uint8", "uint16", "uint32"} -> JNum(1)
          [] ty = "ipv4" -> JStr("10.0.0.5")
          [] ty = "ipv6" -> JStr("::1")
          [] ty = "stringarray" -> JArr(<<"v=spf1", "-all">>)
          [] "oneOf" \in DOMAIN e -> JStr(CHOOSE o \in e["oneOf"] : o \in {"N", "E"})
          [] OTHER -> JStr("new " \o f)

AllValues == UNION {Samples(t, f) : <<t, f>> \in {<<t, f>> \in Types \X
                 UNION {FieldSet(t) : t \in Types} : f \in FieldSet(t)}} \cup {Absent}

\* The field maps of the bodies for type t: no field or every field, with at
\* most MaxOverrides fields given another value or left out.
FieldMaps(t) ==
    LET bases == {[f \in FieldSet(t) |-> Absent], [f \in FieldSet(t) |-> GoodValue(t, f)]}
        doms == {D \in SUBSET FieldSet(t) : Cardinality(D) <= MaxOverrides}
        overrides == UNION {{o \in [D -> AllValues] :
                                \A f \in D : o[f] \in Samples(t, f) \cup {Absent}} : D \in doms}
    IN  {[f \in FieldSet(t) |-> IF f \in DOMAIN o THEN o[f] ELSE b[f]] :
            <<b, o>> \in bases \X overrides}

\* The JSON object of a tag and a field map: the fields left out are no keys.
JsonObject(tag, m) ==
    [key \in {"type"} \cup {f \in DOMAIN m : m[f] # Absent} |->
        IF key = "type" THEN tag ELSE m[key]]

NoFields == [f \in {} |-> Absent]

Bodies ==
    UNION {{JsonObject(JStr(tag), m) : <<tag, m>> \in Spellings(t) \X FieldMaps(t)} : t \in Types}
    \cup {JsonObject(JStr(tag), NoFields) : tag \in Spellings("BOGUS")}
    \cup {JsonObject(JNum(1), NoFields), NoFields}

PlainRequest ==
    [method |-> "PUT", hasBody |-> TRUE, contentType |-> "application/json",
     path |-> Www, authorization |-> "token-alice", json |-> TRUE,
     body |-> JsonObject(JStr("A"), NoFields), database |-> "db1"]

\* The requests: ones stopped by a request check, ones of each caller on each
\* name, and ones of an administrator or an operator with each body.
Requests ==
    {[PlainRequest EXCEPT !.method = m, !.path = p] : <<m, p>> \in {"GET", "POST"} \X {Www, EmptyString}}
    \cup {[PlainRequest EXCEPT !.hasBody = FALSE], [PlainRequest EXCEPT !.contentType = "text/plain"],
          [PlainRequest EXCEPT !.json = FALSE]}
    \cup {[PlainRequest EXCEPT !.authorization = a, !.path = p] : <<a, p>> \in Authorizations \X Paths}
    \cup {[PlainRequest EXCEPT !.authorization = a, !.path = p, !.body = b] :
            <<a, p, b>> \in {"token-alice", "token-bob"} \X Paths \X Bodies}

NoRequest ==
    [method |-> "", hasBody |-> FALSE, contentType |-> "", path |-> EmptyString,
     authorization |-> "", json |-> FALSE, body |-> NoFields, database |-> ""]

Init ==
    /\ store \in InitialStores
    /\ roles = InitialRoles
    /\ users = InitialUsers
    /\ pc = [r \in Reqs |-> "idle"]
    /\ req = [r \in Reqs |-> NoRequest]
    /\ user = [r \in Reqs |-> NoUser]
    /\ recordName = [r \in Reqs |-> EmptyString]
    /\ body = [r \in Reqs |-> NoFields]
    /\ record = [r \in Reqs |-> NoRecord]
    /\ valid = [r \in Reqs |-> NoFields]
    /\ resp = [r \in Reqs |-> <<>>]
    /\ calls = [r \in Reqs |-> <<>>]
    /\ username = [r \in Reqs |-> ""]
    /\ u = [r \in Reqs |-> NoUser]
    /\ role = [r \in Reqs |-> NoRole]
    /\ db = [Get |-> "", Set |-> "", Delete |-> ""]
    /\ other = OtherStore

(***************************************************************************)
(* The handler update (records/update.go:14-746), one action per step.     *)
(***************************************************************************)
Response(kind, msg) == [kind |-> kind, msg |-> msg]

\* util.Responses.Error / util.Responses.Success on request r's writer.
Respond(r, kind, msg) == resp' = [resp EXCEPT ![r] = Append(@, Response(kind, msg))]

Call(op, t, name, ok) == [op |-> op, type |-> t, name |-> name, ok |-> ok]

Log(r, c) == calls' = [calls EXCEPT ![r] = Append(@, c)]

Goto(r, label) == pc' = [pc EXCEPT ![r] = label]

\* The type the switch dispatches on (update.go:73).
RRType(r) == ToUpper(body[r]["type"].s)

\* update.go:20-35: the request checks. The check of the path answers and
\* does not return.
Accept(r, in) ==
    /\ req' = [req EXCEPT ![r] = in]
    /\ db' = [Get |-> in.database, Set |-> in.database, Delete |-> in.database]
    /\ IF in.method # "PUT"
       THEN Respond(r, "MethodNotAllowed", "method not allowed") /\ Goto(r, "done")
       ELSE IF ~in.hasBody
       THEN Respond(r, "BadRequest", "body must be present") /\ Goto(r, "done")
       ELSE IF in.contentType # "application/json"
       THEN Respond(r, "BadRequest", "body must be of type JSON") /\ Goto(r, "done")
       ELSE IF in.path = EmptyString
       THEN Respond(r, "BadRequest", "record must be specified in path") /\ Goto(r, "token")
       ELSE IF in.authorization = ""
       THEN Respond(r, "Unauthorized", "header 'Authorization' is required") /\ Goto(r, "done")
       ELSE resp' = resp /\ Goto(r, "token")
    /\ UNCHANGED <<dbVars, userUpdateVars, role, user, recordName, body, record, valid, calls>>

\* A request arrives.
Receive(r) == pc[r] = "idle" /\ \E in \in Requests : Accept(r, in)

\* VerifyToken going on to the body without the role check.
VerifyTokenSkipsRoleCheck(r) ==
    /\ pc[r] = "token"
    /\ LET token == TokenFromString(req[r].authorization)
           found == UserFromToken(token, users)
       IN  IF token = "" \/ found = NoUser
           THEN /\ Respond(r, "Unauthorized", "failed to authenticate")
                /\ Goto(r, "done")
                /\ UNCHANGED <<user, recordName>>
           ELSE /\ user' = [user EXCEPT ![r] = found]
                /\ recordName' = [recordName EXCEPT ![r] = ToLower(req[r].path)]
                /\ Goto(r, "decode")
                /\ resp' = resp
    /\ UNCHANGED <<dbVars, db, userUpdateVars, role, req, body, record, valid, calls>>

\* update.go:37-49: db.TokenFromString and db.UserFromToken.
VerifyToken(r) ==
    /\ pc[r] = "token"
    /\ LET token == TokenFromString(req[r].authorization)
           found == UserFromToken(token, users)
       IN  IF token = ""
           THEN /\ Respond(r, "Unauthorized", "failed to authenticate")
                /\ Goto(r, "done")
                /\ user' = user
           ELSE IF found = NoUser
           THEN /\ Respond(r, "InternalServerError", "user does not exist")
                /\ Goto(r, "done")
                /\ user' = user
           ELSE /\ user' = [user EXCEPT ![r] = found]
                /\ Goto(r, "authorize")
                /\ resp' = resp
    /\ UNCHANGED <<dbVars, db, userUpdateVars, role, req, recordName, body, record, valid, calls>>

\* The role check with one thing changed: the role is evaluated on the name
\* evaluated, and a denial leads to the position denied.
AuthorizeVariant(r, evaluated, denied) ==
    /\ pc[r] = "authorize"
    /\ LET name == ToLower(req[r].path)
           ev == EvaluateRole(user[r].role, evaluated, roles)
       IN  /\ recordName' = [recordName EXCEPT ![r] = name]
           /\ Log(r, Call("EvaluateRole", "", evaluated, ev.err = "" /\ ev.allowed))
           /\ IF ev.err # ""
              THEN Respond(r, "InternalServerError", "failed to evaluate the role")
                   /\ Goto(r, "done")
              ELSE IF ~ev.allowed
              THEN Respond(r, "Forbidden", "role is not allowed to create record")
                   /\ Goto(r, denied)
              ELSE resp' = resp /\ Goto(r, "decode")
    /\ UNCHANGED <<dbVars, db, userUpdateVars, role, req, user, body, record, valid>>

\* Authorize answering a denial and going on (no return).
AuthorizeAnswersAndGoesOn(r) == AuthorizeVariant(r, ToLower(req[r].path), "decode")

\* Authorize evaluating the role on the path as received.
AuthorizeOnRawPath(r) == AuthorizeVariant(r, req[r].path, "done")

\* Authorize taking a denial for a permission.
AuthorizeIgnoresDenial(r) ==
    /\ pc[r] = "authorize"
    /\ LET name == ToLower(req[r].path)
           ev == EvaluateRole(user[r].role, name, roles)
       IN  /\ recordName' = [recordName EXCEPT ![r] = name]
           /\ Log(r, Call("EvaluateRole", "", name, ev.err = "" /\ ev.allowed))
           /\ IF ev.err # ""
              THEN Respond(r, "InternalServerError", "failed to evaluate the role")
                   /\ Goto(r, "done")
              ELSE resp' = resp /\ Goto(r, "decode")
    /\ UNCHANGED <<dbVars, db, userUpdateVars, role, req, user, body, record, valid>>

\* update.go:51-60: the record name and the role check.
Authorize(r) ==
    /\ pc[r] = "authorize"
    /\ LET name == ToLower(req[r].path)
           ev == EvaluateRole(user[r].role, name, roles)
       IN  /\ recordName' = [recordName EXCEPT ![r] = name]
           /\ Log(r, Call("EvaluateRole", "", name, ev.err = "" /\ ev.allowed))
           /\ IF ev.err # ""
              THEN Respond(r, "InternalServerError", "failed to evaluate the role")
                   /\ Goto(r, "done")
              ELSE IF ~ev.allowed
              THEN Respond(r, "Forbidden", "role is not allowed to create record")
                   /\ Goto(r, "done")
              ELSE resp' = resp /\ Goto(r, "decode")
    /\ UNCHANGED <<dbVars, db, userUpdateVars, role, req, user, body, record, valid>>

\* The schema of the body's field type (update.go:67).
TypeSchema == [type |-> [type |-> "string", required |-> "true"]]

\* The answer of the switch's default case (update.go:742).
ValidTypesMessage ==
    "field 'type' must be on of: A, AAAA, CNAME, MX, LOC, SRV, SPF, TXT, NS, CAA, "
        \o "PTR, CERT, DNSKEY, DS, NAPTR, SMIMEA, SSHFP, TLSA, URI"

\* Decode validating the fields of the type too, before the record is loaded.
DecodeValidatesFields(r) ==
    /\ pc[r] = "decode"
    /\ req[r].json
    /\ LET b == req[r].body
           v == ValidateBody(b, <<"type">>, TypeSchema)
           t == ToUpper(b["type"].s)
           w == ValidateBody(b, SchemaFields(t), Schema(t))
       IN  /\ body' = [body EXCEPT ![r] = b]
           /\ IF v.err # "" \/ t \notin Types
              THEN /\ Respond(r, "BadRequest", ValidTypesMessage)
                   /\ Goto(r, "done")
                   /\ Log(r, Call("Decode", "", recordName[r], FALSE))
              ELSE /\ calls' = [calls EXCEPT ![r] = @ \o <<Call("Decode", "", recordName[r], TRUE),
                                     Call("ValidateBody", t, recordName[r], w.err = "")>>]
                   /\ IF w.err # ""
                      THEN Respond(r, "BadRequest", w.err) /\ Goto(r, "done")
                      ELSE resp' = resp /\ Goto(r, "load")
    /\ UNCHANGED <<dbVars, db, userUpdateVars, role, req, user, recordName, record, valid>>

\* update.go:62-73 and 741-744: the body is decoded, its field type is
\* validated, and the switch finds the case of the type or none.
Decode(r) ==
    /\ pc[r] = "decode"
    /\ IF ~req[r].json
       THEN /\ Respond(r, "BadRequest", "failed to decode body")
            /\ Goto(r, "done")
            /\ Log(r, Call("Decode", "", recordName[r], FALSE))
            /\ body' = body
       ELSE LET b == req[r].body
                v == ValidateBody(b, <<"type">>, TypeSchema)
            IN  /\ body' = [body EXCEPT ![r] = b]
                /\ Log(r, Call("Decode", "", recordName[r], v.err = ""))
                /\ IF v.err # ""
                   THEN Respond(r, "BadRequest", v.err) /\ Goto(r, "done")
                   ELSE IF ToUpper(b["type"].s) \in Types
                   THEN resp' = resp /\ Goto(r, "load")
                   ELSE Respond(r, "BadRequest", ValidTypesMessage)
                        /\ Goto(r, "done")
    /\ UNCHANGED <<dbVars, db, userUpdateVars, role, req, user, recordName, record, valid>>

\* A record of type t with the zero value in every field.
ZeroRecord(t) == [exists |-> FALSE, fields |-> [f \in RecordFields(t) |-> JStr("")]]

\* Load answering that the record does not exist and going on (no return).
LoadGoesOn(r) ==
    /\ pc[r] = "load"
    /\ LET t == RRType(r)
           name == AppendDot(recordName[r])
           rec == DbGet(Bucket(db.Get), t, name)
       IN  /\ Log(r, Call("Get", t, name, ~RecordDoesNotExist(rec)))
           /\ Goto(r, "validate")
           /\ IF RecordDoesNotExist(rec)
              THEN /\ Respond(r, "BadRequest", "specified record does not exist")
                   /\ record' = [record EXCEPT ![r] = ZeroRecord(t)]
              ELSE /\ record' = [record EXCEPT ![r] = rec]
                   /\ resp' = resp
    /\ UNCHANGED <<dbVars, db, userUpdateVars, role, req, user, recordName, body, valid>>

\* "record := db.Get.<type>(recordName + ".")" and the check of
\* util.RecordDoesNotExist, the first lines of every case (update.go:75-80).
Load(r) ==
    /\ pc[r] = "load"
    /\ LET t == RRType(r)
           name == AppendDot(recordName[r])
           rec == DbGet(Bucket(db.Get), t, name)
       IN  /\ Log(r, Call("Get", t, name, ~RecordDoesNotExist(rec)))
           /\ IF RecordDoesNotExist(rec)
              THEN /\ Respond(r, "BadRequest", "specified record does not exist")
                   /\ Goto(r, "done")
                   /\ record' = record
              ELSE /\ record' = [record EXCEPT ![r] = rec]
                   /\ Goto(r, "validate")
                   /\ resp' = resp
    /\ UNCHANGED <<dbVars, db, userUpdateVars, role, req, user, recordName, body, valid>>

RECURSIVE ApplyAssignments(_, _, _, _, _)
\* The assignments of a case from its i-th on, applied to the record fields.
ApplyAssignments(t, fields, v, b, i) ==
    IF i > Len(Assignments(t)) THEN fields
    ELSE LET bf == Assignments(t)[i][1]
             rf == Assignments(t)[i][2]
             next == IF v[bf]
                     THEN [fields EXCEPT ![rf] = Convert(Schema(t)[bf]["type"], b[bf])]
                     ELSE fields
         IN  ApplyAssignments(t, next, v, b, i + 1)

\* "Update values if they exist in the body" (update.go:89-92 and alike).
Merge(t, rec, v, b) == [rec EXCEPT !.fields = ApplyAssignments(t, rec.fields, v, b, 1)]

\* The field validation and the merge of a case (update.go:82-92 and alike).
Validate(r) ==
    /\ pc[r] = "validate"
    /\ LET t == RRType(r)
           v == ValidateBody(body[r], SchemaFields(t), Schema(t))
       IN  /\ Log(r, Call("ValidateBody", t, recordName[r], v.err = ""))
           /\ valid' = [valid EXCEPT ![r] = v.valid]
           /\ IF v.err # "" THEN Respond(r, "BadRequest", v.err) ELSE resp' = resp
           /\ IF v.err # "" /\ ReturnsOnInvalid(t)
              THEN Goto(r, "done") /\ record' = record
              ELSE /\ Goto(r, "store")
                   /\ record' = [record EXCEPT ![r] = Merge(t, record[r], v.valid, body[r])]
    /\ UNCHANGED <<dbVars, db, userUpdateVars, role, req, user, recordName, body>>

\* SetArguments giving db.Set.CAA the content before the tag.
SetArgumentsSwapped(t, rec) ==
    [f \in RecordFields(t) |->
        IF t = "CAA" THEN rec.fields[IF f = "Tag" THEN "Content" ELSE "Tag"]
        ELSE IF IsAddress(t, f) THEN IPString(rec.fields[f]) ELSE rec.fields[f]]

\* The arguments given to db.Set.<type> after the name.
SetArguments(t, rec) ==
    [f \in RecordFields(t) |->
        IF IsAddress(t, f) THEN IPString(rec.fields[f]) ELSE rec.fields[f]]

\* Store giving db.Set.<type> the path as it was received.
StoreUnderPath(r) ==
    /\ pc[r] = "store"
    /\ LET t == RRType(r)
       IN  \E ok \in BOOLEAN :
              /\ Log(r, Call("Set", t, req[r].path, ok))
              /\ IF ok
                 THEN /\ SetIn(db.Set, t, req[r].path, SetArguments(t, record[r]))
                      /\ Respond(r, "Success", "")
                 ELSE /\ UNCHANGED <<store, other>>
                      /\ Respond(r, "InternalServerError", "failed to write record to database")
              /\ Goto(r, "done")
    /\ UNCHANGED <<roles, users, db, userUpdateVars, role, req, user, recordName, body, record, valid>>

\* Store answering a failed write and going on to Success (no return).
StoreAnswersAndGoesOn(r) ==
    /\ pc[r] = "store"
    /\ LET t == RRType(r)
       IN  \E ok \in BOOLEAN :
              /\ Log(r, Call("Set", t, recordName[r], ok))
              /\ IF ok
                 THEN /\ SetIn(db.Set, t, recordName[r], SetArguments(t, record[r]))
                      /\ Respond(r, "Success", "")
                 ELSE /\ UNCHANGED <<store, other>>
                      /\ resp' = [resp EXCEPT ![r] = @ \o
                            <<Response("InternalServerError", "failed to write record to database"),
                              Response("Success", "")>>]
              /\ Goto(r, "done")
    /\ UNCHANGED <<roles, users, db, userUpdateVars, role, req, user, recordName, body, record, valid>>

\* "db.Set.<type>(recordName, ...)" and the final util.Responses.Success
\* (update.go:94-98 and alike, 746). The write may fail in the bucket.
Store(r) ==
    /\ pc[r] = "store"
    /\ LET t == RRType(r)
       IN  \E ok \in BOOLEAN :
              /\ Log(r, Call("Set", t, recordName[r], ok))
              /\ IF ok
                 THEN /\ SetIn(db.Set, t, recordName[r], SetArguments(t, record[r]))
                      /\ Respond(r, "Success", "")
                 ELSE /\ UNCHANGED <<store, other>>
                      /\ Respond(r, "InternalServerError", "failed to write record to database")
              /\ Goto(r, "done")
    /\ UNCHANGED <<roles, users, db, userUpdateVars, role, req, user, recordName, body, record, valid>>

Step(r) ==
    \/ VerifyToken(r)
    \/ Authorize(r)
    \/ Decode(r)
    \/ Load(r)
    \/ Validate(r)
    \/ Store(r)

\* One request, handled from its arrival to its response.
Next == Receive(1) \/ Step(1)

Spec == Init /\ [][Next]_vars

(***************************************************************************)
(* Two requests in progress at once: net/http serves each request on its   *)
(* own goroutine, and the handler takes no lock around load and store.     *)
(***************************************************************************)
\* The field maps that supply one field of type t, with a valid value.
SingleFieldMaps(t) ==
    {[f \in FieldSet(t) |-> IF f = g THEN GoodValue(t, g) ELSE Absent] : g \in FieldSet(t)}

\* An administrator's requests on www.example.com that supply one field.
ConcurrentRequests ==
    UNION {{[PlainRequest EXCEPT !.body = JsonObject(JStr(t), m)] : m \in SingleFieldMaps(t)} :
              t \in Types}

ReceiveConcurrent(r) == pc[r] = "idle" /\ \E in \in ConcurrentRequests : Accept(r, in)

NextConcurrent == \E r \in Reqs : ReceiveConcurrent(r) \/ Step(r)

SpecConcurrent == Init /\ [][NextConcurrent]_vars

(***************************************************************************)
(* One request after another: the same request is sent again once it has   *)
(* been answered, with its type tag spelled in the same or in another      *)
(* letter case.                                                            *)
(***************************************************************************)
\* The bodies that differ from b in the letter case of the tag at most.
Respelled(b) ==
    IF "type" \in DOMAIN b /\ b["type"].k = "string"
    THEN {[b EXCEPT !["type"] = JStr(tag)] :
            tag \in UNION {Spellings(t) : t \in {t \in Types \cup {"BOGUS"} :
                                                    b["type"].s \in Spellings(t)}}}
    ELSE {b}

ReceiveAgain(r) ==
    /\ pc[r] = "idle"
    /\ pc[1] = "done"
    /\ \E b \in Respelled(req[1].body) : Accept(r, [req[1] EXCEPT !.body = b])

NextRepeat == Receive(1) \/ Step(1) \/ ReceiveAgain(2) \/ Step(2)

SpecRepeat == Init /\ [][NextRepeat]_vars

(***************************************************************************)
(* The user update handler (package users, func update), one action per    *)
(* step. db.UserFromDatabase, User.Encode and passlib.Hash are called by   *)
(* the handler and are not part of the sources at hand.                    *)
(***************************************************************************)
\* The fields and the schema given to util.ValidateBody (part_000:55-59).
UsersFields == <<"name", "password", "role">>

UsersSchema == [name |-> Opt("string"), password |-> Opt("string"), role |-> Opt("string")]

\* db.UserFromDatabase: the user of that username, NoUser (an error) when the
\* user bucket does not hold it.
UserFromDatabase(name, us) ==
    IF name \in DOMAIN us
    THEN [username |-> name, name |-> us[name].name, password |-> us[name].password,
          role |-> us[name].role]
    ELSE NoUser

\* passlib.Hash
Hash(password) == "hash of " \o password

\* User.Encode: the user is written to the user bucket under its username.
Encode(usr, us) ==
    [k \in DOMAIN us \cup {usr.username} |->
        IF k = usr.username
        THEN [name |-> usr.name, password |-> usr.password, role |-> usr.role]
        ELSE us[k]]

\* The JSON object of a field map: the fields left out are no keys.
UsersObject(m) == [key \in {f \in DOMAIN m : m[f] # Absent} |-> m[key]]

UsersBodies ==
    {UsersObject([name |-> n, password |-> p, role |-> ro]) :
        <<n, p, ro>> \in {Absent, JStr("New Name")} \X {Absent, JStr("secret")}
                          \X {Absent, JStr("admin"), JStr("guest")}}
    \cup {UsersObject([name |-> JNum(7), password |-> Absent, role |-> JStr("admin")])}

UsersPlainRequest ==
    [method |-> "PUT", hasBody |-> TRUE, contentType |-> "application/json",
     query |-> "", authorization |-> "token-alice", json |-> TRUE, body |-> NoFields]

\* The requests: ones stopped by a request check, ones of each caller, and
\* ones of an administrator or an operator with each body, for the caller's
\* own account, for another one and for none that exists.
UsersRequests ==
    {[UsersPlainRequest EXCEPT !.method = "GET"], [UsersPlainRequest EXCEPT !.hasBody = FALSE],
     [UsersPlainRequest EXCEPT !.contentType = "text/plain"],
     [UsersPlainRequest EXCEPT !.json = FALSE]}
    \cup {[UsersPlainRequest EXCEPT !.authorization = a] : a \in Authorizations}
    \cup {[UsersPlainRequest EXCEPT !.authorization = a, !.query = q, !.body = b] :
            <<a, q, b>> \in {"token-alice", "token-bob"} \X {"", "bob", "zoe"} \X UsersBodies}

\* part_000:13-26: the request checks.
UsersAccept(r, in) ==
    /\ req' = [req EXCEPT ![r] = in]
    /\ IF in.method # "PUT"
       THEN Respond(r, "MethodNotAllowed", "method not allowed") /\ Goto(r, "done")
       ELSE IF ~in.hasBody
       THEN Respond(r, "BadRequest", "body must be present") /\ Goto(r, "done")
       ELSE IF in.contentType # "application/json"
       THEN Respond(r, "BadRequest", "body must be of type JSON") /\ Goto(r, "done")
       ELSE IF in.authorization = ""
       THEN Respond(r, "Unauthorized", "header 'Authorization' is required") /\ Goto(r, "done")
       ELSE resp' = resp /\ Goto(r, "usersToken")
    /\ UNCHANGED <<dbVars, db, userUpdateVars, role, user, recordName, body, record, valid, calls>>

UsersReceive(r) == pc[r] = "idle" /\ \E in \in UsersRequests : UsersAccept(r, in)

\* part_000:28-47: db.TokenFromString, db.UserFromToken and the username the
\* request operates on.
UsersVerifyToken(r) ==
    /\ pc[r] = "usersToken"
    /\ LET token == TokenFromString(req[r].authorization)
           tokenUser == UserFromToken(token, users)
       IN  IF token = ""
           THEN /\ Respond(r, "Unauthorized", "failed to authenticate")
                /\ Goto(r, "done")
                /\ UNCHANGED <<user, username>>
           ELSE IF tokenUser = NoUser
           THEN /\ Respond(r, "InternalServerError", "user does not exist")
                /\ Goto(r, "done")
                /\ UNCHANGED <<user, username>>
           ELSE /\ user' = [user EXCEPT ![r] = tokenUser]
                /\ username' = [username EXCEPT ![r] =
                       IF tokenUser.role = "admin" /\ req[r].query # ""
                       THEN req[r].query ELSE tokenUser.username]
                /\ Goto(r, "usersDecode")
                /\ resp' = resp
    /\ UNCHANGED <<dbVars, db, req, recordName, body, record, valid, calls, u, role>>

\* part_000:49-63: the body is decoded and validated.
UsersDecode(r) ==
    /\ pc[r] = "usersDecode"
    /\ IF ~req[r].json
       THEN /\ Respond(r, "BadRequest", "failed to decode body")
            /\ Goto(r, "done")
            /\ Log(r, Call("Decode", "", username[r], FALSE))
            /\ UNCHANGED <<body, valid>>
       ELSE LET b == req[r].body
                v == ValidateBody(b, UsersFields, UsersSchema)
            IN  /\ body' = [body EXCEPT ![r] = b]
                /\ valid' = [valid EXCEPT ![r] = v.valid]
                /\ Log(r, Call("ValidateBody", "", username[r], v.err = ""))
                /\ IF v.err # ""
                   THEN Respond(r, "BadRequest", v.err) /\ Goto(r, "done")
                   ELSE resp' = resp /\ Goto(r, "usersLoad")
    /\ UNCHANGED <<dbVars, db, userUpdateVars, role, req, user, recordName, record>>

\* "Update values if they exist in body" (part_000:72-85): the role is
\* assigned for a caller with the role admin only.
UsersMerge(usr, v, b, tokenUser) ==
    [usr EXCEPT !.name = IF v["name"] THEN b["name"].s ELSE @,
                !.password = IF v["password"] THEN Hash(b["password"].s) ELSE @,
                !.role = IF v["role"] /\ tokenUser.role = "admin" THEN b["role"].s ELSE @]

\* part_000:65-85: db.UserFromDatabase and the merge; passlib.Hash may fail.
UsersLoad(r) ==
    /\ pc[r] = "usersLoad"
    /\ LET found == UserFromDatabase(username[r], users)
       IN  /\ Log(r, Call("UserFromDatabase", "", username[r], found # NoUser))
           /\ IF found = NoUser
              THEN /\ Respond(r, "BadRequest", "user does not exist")
                   /\ Goto(r, "done")
                   /\ u' = u
              ELSE \E hashed \in IF valid[r]["password"] THEN BOOLEAN ELSE {TRUE} :
                      IF hashed
                      THEN /\ u' = [u EXCEPT ![r] = UsersMerge(found, valid[r], body[r], user[r])]
                           /\ Goto(r, "usersEncode")
                           /\ resp' = resp
                      ELSE /\ u' = [u EXCEPT ![r] = found]
                           /\ Respond(r, "InternalServerError", "failed to hash password")
                           /\ Goto(r, "done")
    /\ UNCHANGED <<dbVars, db, req, user, recordName, body, record, valid, username, role>>

\* part_000:87-94: u.Encode and util.Responses.Success. The write may fail.
UsersEncode(r) ==
    /\ pc[r] = "usersEncode"
    /\ \E ok \in BOOLEAN :
          /\ Log(r, Call("Encode", "", u[r].username, ok))
          /\ IF ok
             THEN /\ users' = Encode(u[r], users)
                  /\ Respond(r, "Success", "")
             ELSE /\ users' = users
                  /\ Respond(r, "InternalServerError", "failed to write record to database")
          /\ Goto(r, "done")
    /\ UNCHANGED <<store, other, roles, db, userUpdateVars, role, req, user, recordName, body, record, valid>>

UsersStep(r) ==
    \/ UsersVerifyToken(r)
    \/ UsersDecode(r)
    \/ UsersLoad(r)
    \/ UsersEncode(r)

\* Two user update requests in progress at once, each on its own goroutine.
NextUsers == \E r \in Reqs : UsersReceive(r) \/ UsersStep(r)

SpecUsers == Init /\ [][NextUsers]_vars

(***************************************************************************)
(* The role update handler (package roles, func update), one action per    *)
(* step. db.GetRole and db.CreateRole are called by the handler and are    *)
(* not part of the sources at hand.                                        *)
(***************************************************************************)
\* The fields and the schema given to util.ValidateBody (part_001:53-57).
RolesFields == <<"description", "allow", "deny">>

RolesSchema ==
    [description |-> [type |-> "string", required |-> "true"],
     allow |-> [type |-> "string", required |-> "true"],
     deny |-> [type |-> "string", required |-> "true"]]

\* db.GetRole: the role of that name, NoRole (nil) when the role bucket does
\* not hold it.
GetRole(name, rs) ==
    IF name \in DOMAIN rs
    THEN [name |-> name, description |-> rs[name].description, allow |-> rs[name].allow,
          deny |-> rs[name].deny]
    ELSE NoRole

\* db.CreateRole: the role is written to the role bucket under its name.
CreateRole(name, description, allow, deny, rs) ==
    [k \in DOMAIN rs \cup {name} |->
        IF k = name THEN [description |-> description, allow |-> allow, deny |-> deny]
        ELSE rs[k]]

\* A JSON string that holds a pattern, label by label.
JPattern(p) == [k |-> "string", s |-> "", n |-> 0, a |-> p]

\* The bodies: two with the three fields, ones lacking a field, one with a
\* field that is no string, and the empty one.
RolesBodies ==
    LET full == [description |-> JStr("new description"),
                 allow |-> JPattern(<<"*", "example", "org">>), deny |-> JPattern(Mail)]
    IN  {UsersObject(full),
         UsersObject([description |-> JStr("other"), allow |-> JPattern(<<"*">>),
                      deny |-> JPattern(EmptyString)]),
         UsersObject([full EXCEPT !.allow = JNum(7)]), NoFields}
        \cup {UsersObject([full EXCEPT ![f] = Absent]) : f \in DOMAIN full}

RolesPlainRequest ==
    [method |-> "PUT", hasBody |-> TRUE, contentType |-> "application/json",
     path |-> "ops", authorization |-> "token-alice", json |-> TRUE, body |-> NoFields]

\* The role names a path may hold: ones of the bucket, one in another letter
\* case, one of no role and none.
RolesPaths == {"admin", "ops", "Ops", "nobody", ""}

\* The requests: ones stopped by a request check, ones of each caller, and
\* ones of an administrator or an operator with each body for each path.
RolesRequests ==
    {[RolesPlainRequest EXCEPT !.method = "POST"], [RolesPlainRequest EXCEPT !.hasBody = FALSE],
     [RolesPlainRequest EXCEPT !.contentType = "text/plain"],
     [RolesPlainRequest EXCEPT !.json = FALSE]}
    \cup {[RolesPlainRequest EXCEPT !.authorization = a] : a \in Authorizations}
    \cup {[RolesPlainRequest EXCEPT !.authorization = a, !.path = p, !.body = b] :
            <<a, p, b>> \in {"token-alice", "token-bob"} \X RolesPaths \X RolesBodies}

\* part_001:12-25: the request checks.
RolesAccept(r, in) ==
    /\ req' = [req EXCEPT ![r] = in]
    /\ IF in.method # "PUT"
       THEN Respond(r, "MethodNotAllowed", "method not allowed") /\ Goto(r, "done")
       ELSE IF ~in.hasBody
       THEN Respond(r, "BadRequest", "body must be present") /\ Goto(r, "done")
       ELSE IF in.contentType # "application/json"
       THEN Respond(r, "BadRequest", "record must be specified in path") /\ Goto(r, "done")
       ELSE IF in.authorization = ""
       THEN Respond(r, "Unauthorized", "header 'Authorization' must be present")
            /\ Goto(r, "done")
       ELSE resp' = resp /\ Goto(r, "rolesToken")
    /\ UNCHANGED <<dbVars, db, userUpdateVars, role, user, recordName, body, record, valid, calls>>

RolesReceive(r) == pc[r] = "idle" /\ \E in \in RolesRequests : RolesAccept(r, in)

\* RolesVerifyToken letting a caller of any role go on.
RolesVerifyTokenAnyRole(r) ==
    /\ pc[r] = "rolesToken"
    /\ LET token == TokenFromString(req[r].authorization)
           found == UserFromToken(token, users)
       IN  IF token = ""
           THEN /\ Respond(r, "Unauthorized", "failed to authenticate")
                /\ Goto(r, "done")
                /\ user' = user
           ELSE IF found = NoUser
           THEN /\ Respond(r, "InternalServerError", "user does not exist")
                /\ Goto(r, "done")
                /\ user' = user
           ELSE /\ user' = [user EXCEPT ![r] = found]
                /\ resp' = resp
                /\ Goto(r, "rolesDecode")
    /\ UNCHANGED <<dbVars, db, userUpdateVars, role, req, recordName, body, record, valid, calls>>

\* part_001:27-45: db.TokenFromString, db.UserFromToken and the check of the
\* caller's role.
RolesVerifyToken(r) ==
    /\ pc[r] = "rolesToken"
    /\ LET token == TokenFromString(req[r].authorization)
           found == UserFromToken(token, users)
       IN  IF token = ""
           THEN /\ Respond(r, "Unauthorized", "failed to authenticate")
                /\ Goto(r, "done")
                /\ user' = user
           ELSE IF found = NoUser
           THEN /\ Respond(r, "InternalServerError", "user does not exist")
                /\ Goto(r, "done")
                /\ user' = user
           ELSE /\ user' = [user EXCEPT ![r] = found]
                /\ IF found.role # "admin"
                   THEN Respond(r, "Forbidden", "user must be of role 'admin'")
                        /\ Goto(r, "done")
                   ELSE resp' = resp /\ Goto(r, "rolesDecode")
    /\ UNCHANGED <<dbVars, db, userUpdateVars, role, req, recordName, body, record, valid, calls>>

\* part_001:47-61: the body is decoded and validated.
RolesDecode(r) ==
    /\ pc[r] = "rolesDecode"
    /\ IF ~req[r].json
       THEN /\ Respond(r, "BadRequest", "failed to decode body")
            /\ Goto(r, "done")
            /\ Log(r, Call("Decode", "", req[r].path, FALSE))
            /\ UNCHANGED <<body, valid>>
       ELSE LET b == req[r].body
                v == ValidateBody(b, RolesFields, RolesSchema)
            IN  /\ body' = [body EXCEPT ![r] = b]
                /\ valid' = [valid EXCEPT ![r] = v.valid]
                /\ Log(r, Call("ValidateBody", "", req[r].path, v.err = ""))
                /\ IF v.err # ""
                   THEN Respond(r, "BadRequest", v.err) /\ Goto(r, "done")
                   ELSE resp' = resp /\ Goto(r, "rolesLoad")
    /\ UNCHANGED <<dbVars, db, userUpdateVars, role, req, user, recordName, record>>

\* "Update values if they exist in the body" (part_001:69-78).
RolesMerge(rl, v, b) ==
    [rl EXCEPT !.description = IF v["description"] THEN b["description"].s ELSE @,
               !.allow = IF v["allow"] THEN b["allow"].a ELSE @,
               !.deny = IF v["deny"] THEN b["deny"].a ELSE @]

\* part_001:63-78: db.GetRole with the name of the path, and the merge.
RolesLoad(r) ==
    /\ pc[r] = "rolesLoad"
    /\ LET found == GetRole(req[r].path, roles)
       IN  /\ Log(r, Call("GetRole", "", req[r].path, found # NoRole))
           /\ IF found = NoRole
              THEN /\ Respond(r, "BadRequest", "specified role does not exist")
                   /\ Goto(r, "done")
                   /\ role' = role
              ELSE /\ role' = [role EXCEPT ![r] = RolesMerge(found, valid[r], body[r])]
                   /\ Goto(r, "rolesSave")
                   /\ resp' = resp
    /\ UNCHANGED <<dbVars, db, userUpdateVars, req, user, recordName, body, record, valid>>

\* part_001:80-87: db.CreateRole and util.Responses.Success. The write may
\* fail.
RolesSave(r) ==
    /\ pc[r] = "rolesSave"
    /\ \E ok \in BOOLEAN :
          /\ Log(r, Call("CreateRole", "", role[r].name, ok))
          /\ IF ok
             THEN /\ roles' = CreateRole(role[r].name, role[r].description, role[r].allow,
                                         role[r].deny, roles)
                  /\ Respond(r, "Success", "")
             ELSE /\ roles' = roles
                  /\ Respond(r, "InternalServerError", "failed to write role to database")
          /\ Goto(r, "done")
    /\ UNCHANGED <<store, other, users, db, userUpdateVars, role, req, user, recordName, body, record, valid>>

RolesStep(r) ==
    \/ RolesVerifyToken(r)
    \/ RolesDecode(r)
    \/ RolesLoad(r)
    \/ RolesSave(r)

\* Two role update requests in progress at once, each on its own goroutine.
NextRoles == \E r \in Reqs : RolesReceive(r) \/ RolesStep(r)

SpecRoles == Init /\ [][NextRoles]_vars

(***************************************************************************)
(* Two requests in progress at once that are passed different database     *)
(* handles: each assigns the package-level db.Get.Db, db.Set.Db and        *)
(* db.Delete.Db when it arrives (update.go:16-18), and db.Get.<type> and   *)
(* db.Set.<type> go through them.                                          *)
(***************************************************************************)
Handles == {"db1", "db2"}

\* An administrator's requests on the A and the MX record of
\* www.example.com that supply one field, with either handle.
HandleRequests ==
    {[q EXCEPT !.database = h] :
        <<q, h>> \in {q \in ConcurrentRequests : q.body["type"].s \in {"A", "MX"}} \X Handles}

ReceiveHandles(r) == pc[r] = "idle" /\ \E in \in HandleRequests : Accept(r, in)

NextHandles == \E r \in Reqs : ReceiveHandles(r) \/ Step(r)

SpecHandles == Init /\ [][NextHandles]_vars

(***************************************************************************)
(* What the properties below speak of.                                     *)
(***************************************************************************)
Last(s) == s[Len(s)]

Ops(r) == [i \in 1..Len(calls[r]) |-> calls[r][i].op]

HasCall(r, op) == \E i \in 1..Len(calls[r]) : calls[r][i].op = op

Finished(r) == pc[r] = "done"

\* The role evaluation of request r said no, or said that it failed.
RoleRefused(r) == \E i \in 1..Len(calls[r]) : calls[r][i].op = "EvaluateRole" /\ ~calls[r][i].ok

\* util.ValidateBody returned an error to request r.
ValidationFailed(r) ==
    \E i \in 1..Len(calls[r]) : calls[r][i].op \in {"Decode", "ValidateBody"} /\ ~calls[r][i].ok

\* The handler wrote a record for request r.
Stored(r) == \E i \in 1..Len(calls[r]) : calls[r][i].op = "Set" /\ calls[r][i].ok

\* The key of the record request r is about.
KeyOf(r) == <<AppendDot(recordName[r]), RRType(r)>>

\* The record field that holds schema field f of type t: the one db.Set.<type>
\* is given for it (tag and content of CAA are record.Tag and record.Content).
RecordFieldOf(t, f) ==
    IF t = "CAA" /\ f = "content" THEN "Content"
    ELSE LET i == CHOOSE i \in 1..Len(Assignments(t)) : Assignments(t)[i][1] = f
         IN  Assignments(t)[i][2]

\* The stored form of a value v supplied for schema field f of type t.
StoredForm(t, f, v) ==
    LET ty == Schema(t)[f]["type"]
    IN  IF ty \in {"ipv4", "ipv6"} THEN IPString(Convert(ty, v)) ELSE Convert(ty, v)

\* The body of request r passes the field validation of its type.
FieldsValid(r) == ValidateBody(body[r], SchemaFields(RRType(r)), Schema(RRType(r))).err = ""

(***************************************************************************)
(* C1: if the role is not allowed for the name, or the validation of the   *)
(* body fails, the request makes no db.Set call.                           *)
(* Refuted: the cases CAA to URI answer a failed validation and go on to   *)
(* db.Set.                                                                 *)
(***************************************************************************)
C1_NoSetAfterFailure ==
    \A r \in Reqs : (RoleRefused(r) \/ ValidationFailed(r)) => ~HasCall(r, "Set")

(***************************************************************************)
(* C2: a field the validity map leaves unset has, in the record an update  *)
(* stores, the value it had in the existing record.                        *)
(* Refuted: the case CAA assigns the content of the body to record.Tag.    *)
(***************************************************************************)
C2_UnsetFieldsKept ==
    [][\A r \in Reqs :
          (pc[r] = "store" /\ pc'[r] = "done" /\ Last(calls'[r]).ok) =>
              \A f \in FieldSet(RRType(r)) :
                  ~valid[r][f] =>
                      store'[KeyOf(r)][RecordFieldOf(RRType(r), f)]
                          = store[KeyOf(r)][RecordFieldOf(RRType(r), f)]]_vars

(***************************************************************************)
(* C3: after a successful update whose body supplies a valid value v for   *)
(* field F, the stored record's field F is v.                              *)
(* Refuted: the content supplied for a CAA record is never stored as its   *)
(* content.                                                                *)
(***************************************************************************)
C3_SuppliedFieldsStored ==
    \A r \in Reqs :
        (Finished(r) /\ Stored(r) /\ resp[r] = <<Response("Success", "")>>) =>
            \A f \in FieldSet(RRType(r)) :
                valid[r][f] =>
                    store[KeyOf(r)][RecordFieldOf(RRType(r), f)]
                        = StoredForm(RRType(r), f, body[r][f])

(***************************************************************************)
(* C4: an update request for a (name, type) pair with no stored record     *)
(* ends with BadRequest "specified record does not exist", makes no db.Set *)
(* call, and the pair is still absent from the store; a request gets past  *)
(* the load only with its record in the store.                             *)
(***************************************************************************)
C4_MissingRecordRejected ==
    \A r \in Reqs :
        /\ (HasCall(r, "Get") /\ KeyOf(r) \notin DOMAIN store) =>
              /\ Finished(r)
              /\ Last(resp[r]) = Response("BadRequest", "specified record does not exist")
              /\ Last(Ops(r)) = "Get"
              /\ ~Last(calls[r]).ok
        /\ pc[r] \in {"validate", "store"} => KeyOf(r) \in DOMAIN store

C4_Witness ==
    \E r \in Reqs :
        /\ Finished(r) /\ HasCall(r, "Get") /\ RRType(r) = "URI"
        /\ recordName[r] = Www
        /\ KeyOf(r) \notin DOMAIN store
        /\ Last(resp[r]).msg = "specified record does not exist"

(***************************************************************************)
(* C5: deny overrides allow: when the record name matches the deny pattern *)
(* of the caller's role, the role evaluation says no whatever the allow    *)
(* pattern is and the request ends with Forbidden; with allow              *)
(* *.example.com and deny secure.example.com, secure.example.com is denied *)
(* and www.example.com is allowed.                                         *)
(***************************************************************************)
C5_DenyOverridesAllow ==
    \A r \in Reqs :
        HasCall(r, "EvaluateRole") /\ user[r].role \in DOMAIN roles =>
            /\ Matches(roles[user[r].role].deny, recordName[r]) =>
                  /\ Finished(r)
                  /\ Last(resp[r]).kind = "Forbidden"
                  /\ Ops(r) = <<"EvaluateRole">>
                  /\ ~calls[r][1].ok
            /\ (user[r].role = "ops" /\ recordName[r] = Www) => calls[r][1].ok

C5_Witness ==
    \E r \in Reqs :
        /\ Finished(r)
        /\ user[r].role \in DOMAIN roles
        /\ roles[user[r].role].allow = <<"*", "example", "com">>
        /\ roles[user[r].role].deny = Secure
        /\ recordName[r] = Secure
        /\ Matches(roles[user[r].role].allow, recordName[r])
        /\ Last(resp[r]).kind = "Forbidden"

(***************************************************************************)
(* C6: default deny: when the allow pattern of the caller's role is empty  *)
(* or does not match the record name, the role evaluation says no and the  *)
(* request ends with Forbidden, with nothing decoded, loaded or stored.    *)
(***************************************************************************)
C6_DefaultDeny ==
    \A r \in Reqs :
        (/\ HasCall(r, "EvaluateRole")
         /\ user[r].role \in DOMAIN roles
         /\ \/ roles[user[r].role].allow = EmptyString
            \/ ~Glob(roles[user[r].role].allow, recordName[r])) =>
            /\ Finished(r)
            /\ Last(resp[r]).kind = "Forbidden"
            /\ Ops(r) = <<"EvaluateRole">>

C6_Witness ==
    \E r \in Reqs :
        /\ Finished(r)
        /\ HasCall(r, "EvaluateRole")
        /\ user[r].role \in DOMAIN roles
        /\ roles[user[r].role].allow = EmptyString
        /\ roles[user[r].role].deny = EmptyString
        /\ recordName[r] = Www
        /\ resp[r] = <<Response("Forbidden", "role is not allowed to create record")>>

(***************************************************************************)
(* C7: authorization comes first: the body is decoded and validated, and   *)
(* db.Get and db.Set are called, only after db.EvaluateRole has returned   *)
(* allowed for the request's record name; when it returns not allowed the  *)
(* request ends with Forbidden and makes no further call.                  *)
(***************************************************************************)
C7_AuthorizationFirst ==
    \A r \in Reqs :
        /\ \A i \in 1..Len(calls[r]) :
              calls[r][i].op # "EvaluateRole" =>
                  /\ calls[r][1].op = "EvaluateRole"
                  /\ calls[r][1].ok
                  /\ calls[r][1].name = recordName[r]
        /\ pc[r] \in {"decode", "load", "validate", "store"} =>
              /\ HasCall(r, "EvaluateRole")
              /\ calls[r][1].ok
        /\ (RoleRefused(r) /\ user[r].role \in DOMAIN roles) =>
              /\ Finished(r)
              /\ Last(resp[r]).kind = "Forbidden"
              /\ Len(calls[r]) = 1

C7_Witness ==
    \E r \in Reqs :
        /\ Finished(r)
        /\ Ops(r) = <<"EvaluateRole", "Decode", "Get", "ValidateBody", "Set">>
        /\ calls[r][1].ok
        /\ resp[r] = <<Response("Success", "")>>

(***************************************************************************)
(* C8: no lost update: when two requests for the same (name, type) run at  *)
(* once, each supplying one field that the other does not (and that is     *)
(* assigned to another record field), and both succeed, the stored record  *)
(* carries both new values.                                                *)
(* Refuted: both requests load before either stores, and the second store  *)
(* writes back the old value of the first one's field.                     *)
(***************************************************************************)
Supplied(r) == DOMAIN body[r] \ {"type"}

\* The record fields the case of type t assigns for the body fields fs.
Assigned(t, fs) ==
    {Assignments(t)[i][2] : i \in {i \in 1..Len(Assignments(t)) : Assignments(t)[i][1] \in fs}}

C8_NoLostUpdate ==
    (/\ \A r \in Reqs : Finished(r) /\ Stored(r) /\ resp[r] = <<Response("Success", "")>>
     /\ KeyOf(1) = KeyOf(2)
     /\ \A r \in Reqs : Cardinality(Supplied(r)) = 1
     /\ Assigned(RRType(1), Supplied(1)) \cap Assigned(RRType(2), Supplied(2)) = {}) =>
        \A r \in Reqs : \A f \in Supplied(r) :
            store[KeyOf(r)][RecordFieldOf(RRType(r), f)] = StoredForm(RRType(r), f, body[r][f])

(***************************************************************************)
(* C9 as stated: within one request the role evaluation, the load and the  *)
(* store are given one and the same normalized name.                       *)
(* Refuted: the load is given the name with a dot appended.                *)
(***************************************************************************)
C9_Original ==
    \A r \in Reqs : \A i, j \in 1..Len(calls[r]) :
        (/\ calls[r][i].op \in {"EvaluateRole", "Get", "Set"}
         /\ calls[r][j].op \in {"EvaluateRole", "Get", "Set"}) =>
            calls[r][i].name = calls[r][j].name

\* The lower-cased text of the paths a request may carry.
LowerCased(path) ==
    CASE path = <<"WWW", "Example", "com">> -> Www
      [] OTHER -> path

(***************************************************************************)
(* C9 as amended: within one request the record name is the path           *)
(* lower-cased, computed once; a trailing dot is neither added nor         *)
(* removed. The role evaluation and the store (db.Set.<type>) are given    *)
(* that name, the load (db.Get.<type>) is given it with one dot appended.  *)
(***************************************************************************)
C9_NameUsedThroughout ==
    \A r \in Reqs : \A i \in 1..Len(calls[r]) :
        /\ recordName[r] = LowerCased(req[r].path)
        /\ calls[r][i].op \in {"EvaluateRole", "Set"} => calls[r][i].name = recordName[r]
        /\ calls[r][i].op = "Get" =>
              /\ calls[r][i].name = recordName[r] \o <<"">>
              /\ calls[r][i].name # recordName[r]

C9_Witness ==
    \E r \in Reqs :
        /\ req[r].path = <<"WWW", "Example", "com">>
        /\ Finished(r) /\ Stored(r)
        /\ calls[r][1].name = Www
        /\ Last(calls[r]).name = Www
        /\ \E i \in 1..Len(calls[r]) :
              calls[r][i].op = "Get" /\ calls[r][i].name = <<"www", "example", "com", "">>

(***************************************************************************)
(* C10 as stated: the fields of the body are validated against the schema  *)
(* of the type before the existing record is loaded, so that db.Get is     *)
(* called only for a body that passed the validation.                      *)
(* Refuted: every case loads first.                                        *)
(***************************************************************************)
C10_Original ==
    \A r \in Reqs : \A i \in 1..Len(calls[r]) :
        calls[r][i].op = "Get" =>
            \E j \in 1..(i - 1) : calls[r][j].op = "ValidateBody" /\ calls[r][j].ok

IsPrefix(s, t) == Len(s) <= Len(t) /\ s = SubSeq(t, 1, Len(s))

(***************************************************************************)
(* C10 as amended: a record update runs its steps in the order             *)
(* Authorizing, Loading, Validating, Merging, Persisting, Done: the        *)
(* existing record is loaded before the fields of the body are validated   *)
(* against the schema of the type. The fields are validated only after     *)
(* db.Get has found the record, so a request for a record that does not    *)
(* exist ends with "specified record does not exist" without its fields    *)
(* being validated, also when a field is invalid.                          *)
(***************************************************************************)
C10_LoadBeforeValidate ==
    \A r \in Reqs :
        /\ IsPrefix(Ops(r), <<"EvaluateRole", "Decode", "Get", "ValidateBody", "Set">>)
        /\ \A i \in 1..Len(calls[r]) :
              calls[r][i].op = "ValidateBody" => calls[r][i - 1].op = "Get" /\ calls[r][i - 1].ok
        /\ (HasCall(r, "Get") /\ KeyOf(r) \notin DOMAIN store) =>
              /\ ~HasCall(r, "ValidateBody")
              /\ Last(resp[r]) = Response("BadRequest", "specified record does not exist")

C10_Witness ==
    \E r \in Reqs :
        /\ Finished(r)
        /\ Ops(r) = <<"EvaluateRole", "Decode", "Get">>
        /\ recordName[r] = Mail
        /\ ~FieldsValid(r)
        /\ resp[r] = <<Response("BadRequest", "specified record does not exist")>>

(***************************************************************************)
(* C11: every request produces exactly one response, Success or one Error: *)
(* once an Error has been written the request is over, and no second       *)
(* response follows it.                                                    *)
(* Refuted: the check of the empty path answers and goes on to the token,  *)
(* and the cases CAA to URI answer a failed validation and go on to        *)
(* db.Set and to Success.                                                  *)
(***************************************************************************)
C11_ExactlyOneResponse ==
    \A r \in Reqs :
        /\ Len(resp[r]) <= 1
        /\ Finished(r) => Len(resp[r]) = 1
        /\ (resp[r] # <<>> /\ resp[r][1].kind # "Success") => Finished(r)

(***************************************************************************)
(* C19: a request whose path names no record ends with the BadRequest      *)
(* "record must be specified in path": no token is verified, no role       *)
(* evaluated, nothing loaded or stored afterwards.                         *)
(* Refuted: the check answers and does not return.                         *)
(***************************************************************************)
C19_EmptyPathEnds ==
    \A r \in Reqs :
        (/\ pc[r] # "idle"
         /\ req[r].method = "PUT" /\ req[r].hasBody
         /\ req[r].contentType = "application/json"
         /\ req[r].path = EmptyString) =>
            /\ Finished(r)
            /\ resp[r] = <<Response("BadRequest", "record must be specified in path")>>
            /\ user[r] = NoUser
            /\ calls[r] = <<>>

\* The type a tag names when letter case is left aside.
UpperCased(tag) == CHOOSE t \in Types \cup {"BOGUS"} : tag \in Spellings(t)

RECURSIVE CommaList(_)
CommaList(s) ==
    IF Len(s) = 1 THEN s[1] ELSE s[1] \o ", " \o CommaList(Tail(s))

\* No db.Set call of request r failed.
NoStoreFailure(r) == \A i \in 1..Len(calls[r]) : calls[r][i].op = "Set" => calls[r][i].ok

(***************************************************************************)
(* C12: a type tag is accepted if and only if its upper-cased form is one  *)
(* of the 19 types; any other tag ends the request with a BadRequest that  *)
(* lists the 19 tags, with no db.Get and no db.Set call; and a request     *)
(* sent again with its tag in another letter case makes the same calls     *)
(* with the same results and gets the same response.                       *)
(***************************************************************************)
C12_TypeTagCaseInsensitive ==
    /\ Types = {"A", "AAAA", "CNAME", "MX", "LOC", "SRV", "SPF", "TXT", "NS", "CAA", "PTR",
                "CERT", "DNSKEY", "DS", "NAPTR", "SMIMEA", "SSHFP", "TLSA", "URI"}
    /\ ValidTypesMessage = "field 'type' must be on of: "
          \o CommaList(<<"A", "AAAA", "CNAME", "MX", "LOC", "SRV", "SPF", "TXT", "NS", "CAA",
                         "PTR", "CERT", "DNSKEY", "DS", "NAPTR", "SMIMEA", "SSHFP", "TLSA",
                         "URI">>)
    /\ \A r \in Reqs :
          (HasCall(r, "Decode") /\ calls[r][2].ok) =>
              IF UpperCased(body[r]["type"].s) \in Types
              THEN /\ pc[r] = "load" \/ HasCall(r, "Get")
                   /\ \A i \in 1..Len(resp[r]) : resp[r][i].msg # ValidTypesMessage
                   /\ \A i \in 1..Len(calls[r]) :
                         calls[r][i].op \in {"Get", "ValidateBody", "Set"} =>
                             calls[r][i].type = UpperCased(body[r]["type"].s)
              ELSE /\ Finished(r)
                   /\ Last(resp[r]) = Response("BadRequest", ValidTypesMessage)
                   /\ ~HasCall(r, "Get") /\ ~HasCall(r, "Set")
    /\ (/\ \A r \in Reqs : Finished(r) /\ NoStoreFailure(r)
        /\ HasCall(1, "Decode") /\ calls[1][2].ok
        /\ [req[2] EXCEPT !.body = [@ EXCEPT !["type"] = JStr("")]]
              = [req[1] EXCEPT !.body = [@ EXCEPT !["type"] = JStr("")]]
        /\ UpperCased(body[1]["type"].s) = UpperCased(body[2]["type"].s)) =>
          /\ calls[2] = calls[1]
          /\ resp[2] = resp[1]

C12_Witness ==
    /\ \A r \in Reqs : Finished(r) /\ Stored(r)
    /\ req[1].body["type"] = JStr("mx")
    /\ req[2].body["type"] = JStr("Mx")
    /\ "host" \in DOMAIN body[1]
    /\ resp[2] = <<Response("Success", "")>>

(***************************************************************************)
(* C13: idempotence: when an update request has been applied and the same  *)
(* request is applied again, the second store leaves every stored record   *)
(* as the first one left it, for every type and every body.                *)
(***************************************************************************)
C13_Idempotent ==
    [][(/\ pc[2] = "store" /\ pc'[2] = "done"
        /\ req[2] = req[1]
        /\ Finished(1) /\ Stored(1)) => store' = store]_vars

C13_Witness ==
    /\ \A r \in Reqs : Finished(r) /\ Stored(r) /\ resp[r] = <<Response("Success", "")>>
    /\ req[2] = req[1]
    /\ body[1] = JsonObject(JStr("CAA"), [tag |-> JStr("new tag"), content |-> JStr("new content")])
    /\ store[KeyOf(2)]["Tag"] = JStr("new content")

\* The largest value of a LOC field that has a range.
LOCMax(f) ==
    CASE f = "lat-degrees" -> 90
      [] f = "long-degrees" -> 180
      [] f \in {"lat-minutes", "lat-seconds", "long-minutes", "long-seconds"} -> 60

LOCRanged == {"lat-degrees", "lat-minutes", "lat-seconds",
              "long-degrees", "long-minutes", "long-seconds"}

\* Request r has had the fields of its body validated as those of type t.
Validated(r, t) == HasCall(r, "ValidateBody") /\ RRType(r) = t

\* The fields of request r's body passed the validation.
Accepted(r) == \E i \in 1..Len(calls[r]) : calls[r][i].op = "ValidateBody" /\ calls[r][i].ok

(***************************************************************************)
(* C14: LOC bounds are enforced, not clamped: a LOC update is accepted     *)
(* only with lat-degrees in 0..90, long-degrees in 0..180 and the minutes  *)
(* and seconds in 0..60; a body whose other fields are fine is accepted    *)
(* with any values in these ranges, the boundaries included; a value       *)
(* outside its range ends the request with BadRequest, no db.Set call and  *)
(* the stored record as it was.                                            *)
(***************************************************************************)
C14_LOCBounds ==
    \A r \in Reqs :
        Validated(r, "LOC") =>
            /\ Accepted(r) =>
                  \A f \in LOCRanged :
                      /\ f \in DOMAIN body[r]
                      /\ body[r][f].k = "number"
                      /\ body[r][f].n \in 0..LOCMax(f)
            /\ (/\ \A f \in LOCRanged :
                      f \in DOMAIN body[r] /\ body[r][f].k = "number"
                          /\ body[r][f].n \in 0..LOCMax(f)
                /\ \A f \in FieldSet("LOC") \ LOCRanged :
                      f \in DOMAIN body[r] /\ body[r][f] = GoodValue("LOC", f)) => Accepted(r)
            /\ (\E f \in LOCRanged :
                    f \in DOMAIN body[r] /\ body[r][f].k = "number"
                        /\ body[r][f].n \notin 0..LOCMax(f)) =>
                  /\ Finished(r)
                  /\ resp[r][1].kind = "BadRequest" /\ Len(resp[r]) = 1
                  /\ ~HasCall(r, "Set")
                  /\ store \in InitialStores

\* lat-degrees = 90 has been accepted and stored.
C14_Witness ==
    \E r \in Reqs :
        /\ Validated(r, "LOC") /\ Accepted(r)
        /\ body[r]["lat-degrees"] = JNum(90)
        /\ Finished(r) /\ Stored(r)
        /\ store[KeyOf(r)]["LatDegrees"] = JNum(90)

\* The db.Set calls of request r.
SetCalls(r) == {i \in 1..Len(calls[r]) : calls[r][i].op = "Set"}

(***************************************************************************)
(* C15: when the db.Set call of a request returns an error, the request    *)
(* ends with an InternalServerError response and with no Success, and the  *)
(* bucket is as it was; a request calls db.Set at most once, as its last   *)
(* call.                                                                   *)
(***************************************************************************)
C15_StoreErrorSurfaced ==
    \A r \in Reqs :
        /\ Cardinality(SetCalls(r)) <= 1
        /\ \A i \in SetCalls(r) :
              /\ i = Len(calls[r])
              /\ Finished(r)
              /\ ~calls[r][i].ok =>
                    /\ Last(resp[r]).kind = "InternalServerError"
                    /\ \A j \in 1..Len(resp[r]) : resp[r][j].kind # "Success"
                    /\ store \in InitialStores

C15_Witness ==
    \E r \in Reqs :
        /\ Finished(r)
        /\ SetCalls(r) # {} /\ ~Last(calls[r]).ok
        /\ RRType(r) = "URI"
        /\ resp[r] = <<Response("InternalServerError", "failed to write record to database")>>

\* db.Get found the record of request r.
Loaded(r) == \E i \in 1..Len(calls[r]) : calls[r][i].op = "Get" /\ calls[r][i].ok

LOCFields == {"version", "size", "horizontal-precision", "vertical-precision", "altitude",
              "lat-degrees", "lat-minutes", "lat-seconds", "lat-direction",
              "long-degrees", "long-minutes", "long-seconds", "long-direction"}

(***************************************************************************)
(* C17: all 13 LOC fields are required on update: a LOC update whose body  *)
(* lacks one of them ends with BadRequest, no db.Set call and the stored   *)
(* record as it was; a LOC update that is accepted supplies all 13, and    *)
(* once stored the record holds the supplied value in each of them.        *)
(***************************************************************************)
C17_LOCFieldsRequired ==
    /\ FieldSet("LOC") = LOCFields
    /\ \A r \in Reqs :
          Validated(r, "LOC") =>
              /\ (\E f \in LOCFields : f \notin DOMAIN body[r]) =>
                    /\ ~Accepted(r)
                    /\ Finished(r)
                    /\ Len(resp[r]) = 1 /\ resp[r][1].kind = "BadRequest"
                    /\ ~HasCall(r, "Set")
                    /\ store \in InitialStores
              /\ Accepted(r) => \A f \in LOCFields : f \in DOMAIN body[r] /\ valid[r][f]
              /\ (Finished(r) /\ Stored(r)) =>
                    \A f \in LOCFields :
                        store[KeyOf(r)][RecordFieldOf("LOC", f)] = StoredForm("LOC", f, body[r][f])

\* A LOC update lacking its altitude only has been refused.
C17_Witness ==
    \E r \in Reqs :
        /\ Validated(r, "LOC") /\ Finished(r)
        /\ DOMAIN body[r] = {"type"} \cup (LOCFields \ {"altitude"})
        /\ resp[r] = <<Response("BadRequest", "field 'altitude' is required")>>
        /\ store \in InitialStores

(***************************************************************************)
(* C18: updates mutate in place: no step of a request adds a (name, type)  *)
(* pair to the store or removes one, and the only record a step changes is *)
(* the one the request loaded, for its name (qualified) and its type.      *)
(***************************************************************************)
C18_MutateInPlace ==
    [][/\ DOMAIN store' = DOMAIN store
       /\ \A k \in DOMAIN store :
             store'[k] # store[k] =>
                 \E r \in Reqs :
                     /\ pc[r] = "store" /\ pc'[r] = "done"
                     /\ k = <<AppendDot(LowerCased(req[r].path)), UpperCased(body[r]["type"].s)>>
                     /\ record[r].exists
                     /\ \E i \in 1..Len(calls[r]) :
                           /\ calls[r][i] = Call("Get", k[2], k[1], TRUE)]_vars

\* Two updates of a CNAME record later, the store holds the pairs it held and
\* the record is another.
C18_Witness ==
    /\ \A r \in Reqs : Finished(r) /\ Stored(r)
    /\ RRType(1) = "CNAME"
    /\ DOMAIN store = DOMAIN InitialStore(Types, 1)
    /\ store[KeyOf(1)] # InitialStore(Types, 1)[KeyOf(1)]
    /\ \A k \in DOMAIN store \ {KeyOf(1)} : store[k] = InitialStore(Types, 1)[k]

(***************************************************************************)
(* C20: user update isolation: a step of a request whose caller has not    *)
(* the role admin changes no stored record but the caller's own, and not   *)
(* its role; only a caller with the role admin changes another user's      *)
(* record or a role, whatever the user parameter and the body.             *)
(* Refuted for requests in progress at once: the caller's record is loaded *)
(* and written back in two steps, and the write restores the role an       *)
(* administrator has changed in between.                                   *)
(***************************************************************************)
C20_UserUpdateIsolation ==
    [][\A k \in DOMAIN users \cup DOMAIN users' :
          (k \notin DOMAIN users \/ k \notin DOMAIN users' \/ users'[k] # users[k]) =>
              \E r \in Reqs :
                  /\ pc[r] = "usersEncode" /\ pc'[r] = "done"
                  /\ \/ user[r].role = "admin"
                     \/ /\ k = user[r].username
                        /\ k \in DOMAIN users /\ k \in DOMAIN users'
                        /\ users'[k].role = users[k].role]_vars

\* The role a body with the three fields as strings describes.
RoleOfBody(b) ==
    [description |-> b["description"].s, allow |-> b["allow"].a, deny |-> b["deny"].a]

\* Where the role update requests stand: a caller without the role admin has
\* been refused with nothing read or written, a request for a role that does
\* not exist has been refused with nothing written, and the role bucket holds
\* the names it held.
RolesGuarded ==
    /\ DOMAIN roles = DOMAIN InitialRoles
    /\ \A r \in Reqs :
          /\ (user[r] # NoUser /\ user[r].role # "admin") =>
                /\ Finished(r)
                /\ resp[r] = <<Response("Forbidden", "user must be of role 'admin'")>>
                /\ calls[r] = <<>>
          /\ (HasCall(r, "GetRole") /\ req[r].path \notin DOMAIN roles) =>
                /\ Finished(r)
                /\ Last(resp[r]) = Response("BadRequest", "specified role does not exist")
                /\ ~HasCall(r, "CreateRole")

\* What a step may do to the role bucket: change the role a request of an
\* administrator names, to the three strings of its body.
RolesChangedByAdminOnly ==
    \A k \in DOMAIN roles \cup DOMAIN roles' :
        (k \notin DOMAIN roles \/ k \notin DOMAIN roles' \/ roles'[k] # roles[k]) =>
            /\ k \in DOMAIN roles /\ k \in DOMAIN roles'
            /\ \E r \in Reqs :
                  /\ pc[r] = "rolesSave" /\ pc'[r] = "done"
                  /\ user[r].role = "admin"
                  /\ users[user[r].username].role = "admin"
                  /\ req[r].path = k
                  /\ \A f \in {"description", "allow", "deny"} :
                        f \in DOMAIN body[r] /\ body[r][f].k = "string"
                  /\ roles'[k] = RoleOfBody(body[r])

(***************************************************************************)
(* C21: role update is admin-only and in place: a role's description,      *)
(* allow and deny change only by the request of a caller with the role     *)
(* admin that carries the three fields as strings and names that existing  *)
(* role, and become the three strings; a caller without the role admin     *)
(* gets Forbidden and no role is written; a request for a role that does   *)
(* not exist gets BadRequest and no role is created; no role is added,     *)
(* removed or renamed.                                                     *)
(***************************************************************************)
C21_RoleUpdateAdminOnly == []RolesGuarded /\ [][RolesChangedByAdminOnly]_vars

C21_Witness ==
    \E r \in Reqs :
        /\ Finished(r)
        /\ user[r].role = "admin"
        /\ req[r].path = "ops"
        /\ resp[r] = <<Response("Success", "")>>
        /\ roles["ops"] = [description |-> "new description",
                           allow |-> <<"*", "example", "org">>, deny |-> Mail]
        /\ roles["ops"] # InitialRoles["ops"]
        /\ roles["admin"] = InitialRoles["admin"]

(***************************************************************************)
(* C22: every load and store of a request uses the database handle the     *)
(* request was passed, also when two requests with different handles       *)
(* interleave: the load reads the record of the request's own database,    *)
(* and the store writes to it and leaves the other database as it was.     *)
(* Refuted: a request that arrives assigns the shared db.Get.Db and        *)
(* db.Set.Db, and the load and the store of a request in progress then go  *)
(* through the handle of the request that arrived last.                    *)
(***************************************************************************)
C22_OwnHandleUsed ==
    [][\A r \in Reqs :
          /\ (pc[r] = "load" /\ pc'[r] # "load") =>
                /\ db.Get = req[r].database
                /\ pc'[r] = "validate" =>
                      record'[r] = DbGet(Bucket(req[r].database), RRType(r),
                                         AppendDot(recordName[r]))
          /\ (pc[r] = "store" /\ pc'[r] = "done") =>
                /\ db.Set = req[r].database
                /\ req[r].database = "db1" => other' = other
                /\ req[r].database = "db2" => store' = store]_vars

====
